---- MODULE Spec2Model ----
(***************************************************************************)
(* ZEINA company map (src/src/App.tsx): the entity tree held by App, the   *)
(* tree mutation engine (updateNode, addChild, deleteNode, flatten, walk), *)
(* the persistence adapter (save, load), the portfolio summary and the     *)
(* Structure view with its NodeCard / EditInline handlers.                 *)
(***************************************************************************)
EXTENDS Integers, Sequences, FiniteSets, TLC

(* ---------- bounds ---------- *)
\* uid() returns one of MaxId tokens
MaxId == 4
\* handlers that change the tree or a draft (Add, Delete, Save and the inputs
\* of the edit panel) run at most MaxOps times in one run
MaxOps == 2

(* ---------- values ---------- *)
Ids == 1..MaxId
\* editingId = null
NoId == 0
\* a key the object does not have (regDate, taxNo of a node made by addChild)
Undefined == "undefined"
\* JavaScript numbers as far as the docs field needs them
Num(n) == <<"num", n>>
NaN == <<"nan">>
JNull == <<"null">>
\* texts typed into the free-text inputs
Texts == {"x"}
\* texts typed into the Name input
NameTexts == {"", "x"}
\* texts that reach the Docs input's onChange
DocsInputs == {"5", "abc"}
\* files handed over by the file picker: <<name, size>>
Files == {<<"f.pdf", 2048>>}
\* values of new Date().toISOString()
Stamps == {"t1"}
Statuses == {"compliant", "warning", "critical"}

\* Number(e.target.value)
Number(s) ==
  CASE s = "" -> Num(0)
    [] s = "5" -> Num(5)
    [] OTHER -> NaN

\* results of uid() for owner and document records: the program never compares
\* these ids (they are list keys only), one token stands for all of them
SubIds == {1}

(* ---------- seed data ---------- *)
seedChild1(i) ==
  [id |-> i, name |-> "Monaco Investments Ltd", regNo |-> "MC-2021-789",
   country |-> "Monaco", docs |-> Num(2), status |-> "warning",
   owners |-> <<>>, directors |-> <<"Jean Dupont">>, directorDocs |-> <<>>,
   ownershipDocs |-> <<>>, regDate |-> "2021-09-01", taxNo |-> "MC-987654",
   bankAccounts |-> <<>>, children |-> <<>>]

seedChild2(i) ==
  [id |-> i, name |-> "Luxembourg Financial SPV", regNo |-> "LU-2019-001",
   country |-> "Luxembourg", docs |-> Num(2), status |-> "critical",
   owners |-> <<>>, directors |-> <<>>, directorDocs |-> <<>>,
   ownershipDocs |-> <<>>, regDate |-> "2019-01-03", taxNo |-> "LU-2019-001-TAX",
   bankAccounts |-> <<"LU28 0019 4006 4475 0000">>, children |-> <<>>]

\* owner records; a key the variant does not have is NoId / Undefined
personOwner(u, n) == [id |-> u, kind |-> "person", entityId |-> NoId, name |-> n]
entityOwner(u, e) == [id |-> u, kind |-> "entity", entityId |-> e, name |-> Undefined]

\* the three ids are three results of uid()
seed(i1, i2, i3) ==
  << [id |-> i1, name |-> "Alpine Holdings SA", regNo |-> "CH-001-234-567",
      country |-> "Switzerland", docs |-> Num(2), status |-> "compliant",
      owners |-> <<>>, directors |-> <<"Anna Keller">>, directorDocs |-> <<>>,
      ownershipDocs |-> <<>>, regDate |-> "2018-05-12", taxNo |-> "CHE-123.456.789",
      bankAccounts |-> <<"CH93 0076 2011 6238 5295 7">>,
      children |-> <<seedChild1(i2), seedChild2(i3)>>] >>

\* the one-character text U+2014 (em dash) that addChild puts in regNo and country
Dash == "--"

\* the node addChild builds; u is the result of uid()
newChild(u) ==
  [id |-> u, name |-> "New Entity", regNo |-> Dash, country |-> Dash,
   docs |-> Num(0), status |-> "warning", children |-> <<>>, owners |-> <<>>,
   directors |-> <<>>, directorDocs |-> <<>>, ownershipDocs |-> <<>>,
   regDate |-> Undefined, taxNo |-> Undefined, bankAccounts |-> <<>>]

(* ---------- persistence adapter ---------- *)
\* JSON.stringify of a number: NaN is written as null
stringifyNumber(d) == IF d = NaN THEN JNull ELSE d

RECURSIVE stringify(_)
\* JSON.stringify(tree), as the value the text denotes
stringify(nodes) ==
  [i \in 1..Len(nodes) |->
     [nodes[i] EXCEPT !.docs = stringifyNumber(@), !.children = stringify(@)]]

\* contents of localStorage under STORAGE_KEY
NoKey == [kind |-> "nokey", val |-> <<>>]
EmptyText == [kind |-> "empty", val |-> <<>>]
Garbage == [kind |-> "garbage", val |-> <<>>]
NullText == [kind |-> "jsonnull", val |-> <<>>]
JsonText(v) == [kind |-> "json", val |-> v]

\* save(tree): the value setItem stores
save(t) == JsonText(stringify(t))

\* results of load()
Absent == [kind |-> "null", val |-> <<>>]
Raised == [kind |-> "raised", val |-> <<>>]
Loaded(v) == [kind |-> "tree", val |-> v]

\* JSON.parse(raw)
parse(raw) ==
  CASE raw.kind = "json" -> Loaded(raw.val)
    [] raw.kind = "jsonnull" -> Absent
    [] OTHER -> Raised

\* load() without the try/catch: the exception of JSON.parse escapes
loadNoCatch(raw) ==
  IF raw.kind \in {"nokey", "empty"} THEN Absent ELSE parse(raw)

\* load(): raw ? JSON.parse(raw) : null, inside try/catch
load(raw) ==
  IF raw.kind \in {"nokey", "empty"} THEN Absent
  ELSE IF parse(raw) = Raised THEN Absent ELSE parse(raw)

\* useState(load() || seed)
initialTree(raw, sd) ==
  IF load(raw).kind = "tree" THEN load(raw).val ELSE sd

(* ---------- tree mutation engine ---------- *)
RECURSIVE flatten(_)
\* walk(nodes, n => out.push(n)): pre-order list of every node
flatten(nodes) ==
  IF nodes = <<>> THEN <<>>
  ELSE <<Head(nodes)>> \o flatten(Head(nodes).children) \o flatten(Tail(nodes))

RECURSIVE updateNodeRec(_, _, _)
\* rec of updateNode with updater = () => d
updateNodeRec(nodes, id, d) ==
  [i \in 1..Len(nodes) |->
     IF nodes[i].id = id THEN d
     ELSE [nodes[i] EXCEPT !.children = updateNodeRec(@, id, d)]]

RECURSIVE addChildRec(_, _, _)
\* rec of addChild
addChildRec(nodes, parentId, child) ==
  [i \in 1..Len(nodes) |->
     IF nodes[i].id = parentId
     THEN [nodes[i] EXCEPT !.children = Append(@, child)]
     ELSE [nodes[i] EXCEPT !.children = addChildRec(@, parentId, child)]]

RECURSIVE deleteNodeRec(_, _)
\* rec of deleteNode: filter, then map over the survivors
deleteNodeRec(nodes, id) ==
  LET kept == SelectSeq(nodes, LAMBDA n : n.id # id)
  IN [i \in 1..Len(kept) |-> [kept[i] EXCEPT !.children = deleteNodeRec(@, id)]]

(* ---------- portfolio summary ---------- *)
RECURSIVE walkCountShallow(_, _)
\* walk without the recursive call walk(n.children, fn, n)
walkCountShallow(nodes, acc) ==
  IF nodes = <<>> THEN acc
  ELSE LET n == Head(nodes)
           a1 == IF n.status = "compliant" THEN [acc EXCEPT !.compliant = @ + 1]
                 ELSE IF n.status = "warning" THEN [acc EXCEPT !.warning = @ + 1]
                 ELSE [acc EXCEPT !.critical = @ + 1]
       IN walkCountShallow(Tail(nodes), a1)

RECURSIVE walkCount(_, _)
\* walk(tree, n => ...) with the three counters of summary
walkCount(nodes, acc) ==
  IF nodes = <<>> THEN acc
  ELSE LET n == Head(nodes)
           a1 == IF n.status = "compliant" THEN [acc EXCEPT !.compliant = @ + 1]
                 ELSE IF n.status = "warning" THEN [acc EXCEPT !.warning = @ + 1]
                 ELSE [acc EXCEPT !.critical = @ + 1]
       IN walkCount(Tail(nodes), walkCount(n.children, a1))

summarize(t) == walkCount(t, [compliant |-> 0, warning |-> 0, critical |-> 0])

(* ---------- state ---------- *)
VARIABLES
  tree,       \* useState tree (last committed value)
  editingId,  \* useState editingId
  modify,     \* useState modify
  storage,    \* localStorage[STORAGE_KEY]
  pending,    \* the effect save(tree) of the last commit has not run yet
  mounted,    \* the App is rendered (FALSE once a render has thrown)
  drafts,     \* draft state of each displayed EditInline, by card slot
  summary,    \* useMemo summary
  ops,        \* number of tree- or draft-changing handlers run so far
  last        \* the handler that ran last and the card slot it ran on

vars == <<tree, editingId, modify, storage, pending, mounted, drafts, summary, ops, last>>

(* ---------- Structure view ---------- *)
\* card slots: 0 is the root card, s >= 1 is root.children[s]
Slots(t) == IF t = <<>> THEN {} ELSE 0..Len(t[1].children)
SlotNode(t, s) == IF s = 0 THEN t[1] ELSE t[1].children[s]

\* editingId === node.id && modify: the slot shows EditInline, not NodeCard
PanelOpen(t, e, m, s) == m /\ e = SlotNode(t, s).id

\* Structure is a new component on every App render, so every EditInline is
\* mounted anew and its draft starts as { ...node, children: node.children }
Mount(t, e, m) ==
  [s \in {x \in Slots(t) : PanelOpen(t, e, m, x)} |-> SlotNode(t, s)]

\* record of the handler that ran: its name, the card slot, and for Save and
\* Cancel whether the draft differed from the node it was made of
Did(a, s, d) == [act |-> a, slot |-> s, dirty |-> d]

\* useEffect(..., []): the effect runs after the first render only
effectOnMountOnly(changed) == FALSE

\* useEffect(..., [tree]): the effect is due after a commit that changed tree
effectDue(changed) == changed

\* App re-renders with new state; changed: setTree was called
Commit(t, e, m, changed, l) ==
  /\ last' = l
  /\ UNCHANGED storage
  /\ ops' = IF changed THEN ops + 1 ELSE ops
  /\ IF t = <<>>
     THEN \* root is undefined, NodeCard throws, React unmounts the App
          /\ mounted' = FALSE
          /\ drafts' = Mount(<<>>, NoId, FALSE)
          /\ UNCHANGED <<tree, editingId, modify, pending, summary>>
     ELSE /\ tree' = t
          /\ editingId' = e
          /\ modify' = m
          /\ pending' = effectDue(changed)
          /\ summary' = IF changed THEN summarize(t) ELSE summary
          /\ drafts' = Mount(t, e, m)
          /\ UNCHANGED mounted

Ready == mounted /\ ~pending

(* ---------- initial state ---------- *)
\* the seed as built when the module is loaded; its three uid() results are
\* taken pairwise distinct here, repeated ids enter through addChild
SeedTree == seed(1, 2, 3)

\* a tree a previous session saved: both children were made owners of the
\* root, then the second child was deleted
SavedRoot == [SeedTree[1] EXCEPT !.owners = <<entityOwner(1, 2), entityOwner(1, 3)>>]
SavedTree == deleteNodeRec(updateNodeRec(SeedTree, 1, SavedRoot), 3)
InitialStorage == {NoKey, EmptyText, Garbage, NullText, save(SavedTree)}

Init ==
  \E raw \in InitialStorage :
    /\ storage = raw
    /\ tree = initialTree(raw, SeedTree)
    /\ editingId = NoId
    /\ modify = FALSE
    /\ pending = TRUE
    /\ mounted = TRUE
    /\ drafts = Mount(tree, NoId, FALSE)
    /\ summary = summarize(tree)
    /\ ops = 0
    /\ last = Did("Init", 0, FALSE)

(* ---------- handlers ---------- *)
\* useEffect(() => save(tree), [tree])
Effect ==
  /\ mounted /\ pending
  /\ storage' = save(tree)
  /\ pending' = FALSE
  /\ last' = Did("Effect", 0, FALSE)
  /\ UNCHANGED <<tree, editingId, modify, mounted, drafts, summary, ops>>

\* the Modify / Done button
ToggleModify ==
  /\ Ready
  /\ Commit(tree, editingId, ~modify, FALSE, Did("Toggle", 0, FALSE))

\* NodeCard onOpen
OnOpen ==
  \E s \in Slots(tree) :
    /\ Ready /\ s \notin DOMAIN drafts
    /\ Commit(tree, SlotNode(tree, s).id, TRUE, FALSE,
              Did("Open", s, FALSE))

\* NodeCard onEdit
OnEdit ==
  \E s \in Slots(tree) :
    /\ Ready /\ modify /\ s \notin DOMAIN drafts
    /\ Commit(tree, SlotNode(tree, s).id, modify, FALSE,
              Did("Edit", s, FALSE))

\* NodeCard onAddChild
OnAddChild ==
  \E s \in Slots(tree) :
    /\ Ready /\ modify /\ s \notin DOMAIN drafts
    /\ ops < MaxOps
    /\ \E u \in Ids :
         Commit(addChildRec(tree, SlotNode(tree, s).id, newChild(u)), u, TRUE, TRUE,
                Did("Add", s, FALSE))

\* NodeCard onDelete, confirmed
OnDelete ==
  \E s \in Slots(tree) :
    /\ Ready /\ modify /\ s # 0 /\ s \notin DOMAIN drafts
    /\ ops < MaxOps
    /\ Commit(deleteNodeRec(tree, SlotNode(tree, s).id), editingId, modify, TRUE,
              Did("Delete", s, FALSE))

\* NodeCard onDelete, confirmation declined
OnDeleteDeclined ==
  \E s \in Slots(tree) :
    /\ Ready /\ modify /\ s # 0 /\ s \notin DOMAIN drafts
    /\ last' = Did("Declined", s, FALSE)
    /\ UNCHANGED <<tree, editingId, modify, storage, pending, mounted, drafts, summary, ops>>

\* EditInline Save
OnSave ==
  \E s \in Slots(tree) :
    /\ Ready /\ s \in DOMAIN drafts
    /\ ops < MaxOps
    /\ Commit(updateNodeRec(tree, SlotNode(tree, s).id, drafts[s]), NoId, modify, TRUE,
              Did("Save", s, drafts[s] # SlotNode(tree, s)))

\* EditInline Cancel
OnCancel ==
  \E s \in Slots(tree) :
    /\ Ready /\ s \in DOMAIN drafts
    /\ Commit(tree, NoId, modify, FALSE,
              Did("Cancel", s, drafts[s] # SlotNode(tree, s)))

(* ---------- EditInline handlers ---------- *)
\* arr.splice(i, 1)
splice1(arr, i) == [k \in 1..(Len(arr) - 1) |-> IF k < i THEN arr[k] ELSE arr[k + 1]]

\* an input handler that writes the node of the tree instead of the draft
SetDraftInPlace(s, d, act) ==
  /\ drafts' = [drafts EXCEPT ![s] = d]
  /\ tree' = updateNodeRec(tree, drafts[s].id, d)
  /\ ops' = ops + 1
  /\ last' = Did(act, s, FALSE)
  /\ UNCHANGED <<editingId, modify, storage, pending, mounted, summary>>

\* setDraft(d) in the panel of slot s; App does not re-render
SetDraft(s, d, act) ==
  /\ drafts' = [drafts EXCEPT ![s] = d]
  /\ ops' = ops + 1
  /\ last' = Did(act, s, FALSE)
  /\ UNCHANGED <<tree, editingId, modify, storage, pending, mounted, summary>>

\* an EditInline is displayed in slot s and accepts input
Editing(s) == Ready /\ s \in DOMAIN drafts /\ ops < MaxOps

ChangeName ==
  \E s \in Slots(tree) :
    /\ Editing(s)
    /\ \E v \in NameTexts : SetDraft(s, [drafts[s] EXCEPT !.name = v], "ChangeName")

ChangeRegNo ==
  \E s \in Slots(tree) :
    /\ Editing(s)
    /\ \E v \in Texts : SetDraft(s, [drafts[s] EXCEPT !.regNo = v], "ChangeRegNo")

ChangeCountry ==
  \E s \in Slots(tree) :
    /\ Editing(s)
    /\ \E v \in Texts : SetDraft(s, [drafts[s] EXCEPT !.country = v], "ChangeCountry")

ChangeRegDate ==
  \E s \in Slots(tree) :
    /\ Editing(s)
    /\ \E v \in Texts : SetDraft(s, [drafts[s] EXCEPT !.regDate = v], "ChangeRegDate")

ChangeTaxNo ==
  \E s \in Slots(tree) :
    /\ Editing(s)
    /\ \E v \in Texts : SetDraft(s, [drafts[s] EXCEPT !.taxNo = v], "ChangeTaxNo")

ChangeDocs ==
  \E s \in Slots(tree) :
    /\ Editing(s)
    /\ \E v \in DocsInputs : SetDraft(s, [drafts[s] EXCEPT !.docs = Number(v)], "ChangeDocs")

ChangeStatus ==
  \E s \in Slots(tree) :
    /\ Editing(s)
    /\ \E v \in Statuses : SetDraft(s, [drafts[s] EXCEPT !.status = v], "ChangeStatus")

addDirector ==
  \E s \in Slots(tree) :
    /\ Editing(s)
    /\ SetDraft(s, [drafts[s] EXCEPT !.directors = Append(@, "")], "addDirector")

updateDirector ==
  \E s \in Slots(tree) :
    /\ Editing(s)
    /\ \E i \in 1..Len(drafts[s].directors), v \in Texts :
         SetDraft(s, [drafts[s] EXCEPT !.directors = [@ EXCEPT ![i] = v]], "updateDirector")

removeDirector ==
  \E s \in Slots(tree) :
    /\ Editing(s)
    /\ \E i \in 1..Len(drafts[s].directors) :
         SetDraft(s, [drafts[s] EXCEPT !.directors = splice1(@, i)], "removeDirector")

addBank ==
  \E s \in Slots(tree) :
    /\ Editing(s)
    /\ SetDraft(s, [drafts[s] EXCEPT !.bankAccounts = Append(@, "")], "addBank")

updateBank ==
  \E s \in Slots(tree) :
    /\ Editing(s)
    /\ \E i \in 1..Len(drafts[s].bankAccounts), v \in Texts :
         SetDraft(s, [drafts[s] EXCEPT !.bankAccounts = [@ EXCEPT ![i] = v]], "updateBank")

removeBank ==
  \E s \in Slots(tree) :
    /\ Editing(s)
    /\ \E i \in 1..Len(drafts[s].bankAccounts) :
         SetDraft(s, [drafts[s] EXCEPT !.bankAccounts = splice1(@, i)], "removeBank")

addOwnerPerson ==
  \E s \in Slots(tree) :
    /\ Editing(s)
    /\ \E u \in SubIds :
         SetDraft(s, [drafts[s] EXCEPT !.owners = Append(@, personOwner(u, ""))], "addOwnerPerson")

\* the options of the "+ Entity" chooser: allEntities.filter(e => e.id !== draft.id)
EntityOptions(s) ==
  {flatten(tree)[k].id : k \in {j \in 1..Len(flatten(tree)) : flatten(tree)[j].id # drafts[s].id}}

addOwnerEntity ==
  \E s \in Slots(tree) :
    /\ Editing(s)
    /\ \E u \in SubIds, e \in EntityOptions(s) :
         SetDraft(s, [drafts[s] EXCEPT !.owners = Append(@, entityOwner(u, e))], "addOwnerEntity")

\* only person rows have the name input
updateOwnerPerson ==
  \E s \in Slots(tree) :
    /\ Editing(s)
    /\ \E i \in 1..Len(drafts[s].owners), v \in Texts :
         /\ drafts[s].owners[i].kind = "person"
         /\ SetDraft(s, [drafts[s] EXCEPT !.owners = [@ EXCEPT ![i] = [@ EXCEPT !.name = v]]],
                     "updateOwnerPerson")

removeOwner ==
  \E s \in Slots(tree) :
    /\ Editing(s)
    /\ \E i \in 1..Len(drafts[s].owners) :
         SetDraft(s, [drafts[s] EXCEPT !.owners = splice1(@, i)], "removeOwner")

\* allEntities.find(e => e.id === id): index of the first match, 0 for undefined
find(allEntities, id) ==
  IF \E k \in 1..Len(allEntities) : allEntities[k].id = id
  THEN CHOOSE k \in 1..Len(allEntities) :
         /\ allEntities[k].id = id
         /\ \A j \in 1..(k - 1) : allEntities[j].id # id
  ELSE 0

\* text of an entity-owner row: find(...)?.name || "Unknown entity"
ownerRowText(allEntities, o) ==
  LET k == find(allEntities, o.entityId)
  IN IF k = 0 \/ allEntities[k].name = "" THEN "Unknown entity" ELSE allEntities[k].name

\* the Doc record onUpload makes of one file
uploaded(f, u, ts) == [id |-> u, name |-> f[1], size |-> f[2], uploadedAt |-> ts]

\* onUpload("director", files) with one file selected
onUploadDirector ==
  \E s \in Slots(tree) :
    /\ Editing(s)
    /\ \E f \in Files, u \in SubIds, ts \in Stamps :
         SetDraft(s, [drafts[s] EXCEPT !.directorDocs = @ \o <<uploaded(f, u, ts)>>],
                  "onUploadDirector")

\* onUpload("ownership", files) with one file selected
onUploadOwnership ==
  \E s \in Slots(tree) :
    /\ Editing(s)
    /\ \E f \in Files, u \in SubIds, ts \in Stamps :
         SetDraft(s, [drafts[s] EXCEPT !.ownershipDocs = @ \o <<uploaded(f, u, ts)>>],
                  "onUploadOwnership")

Next ==
  \/ Effect \/ ToggleModify
  \/ OnOpen \/ OnEdit \/ OnAddChild \/ OnDelete \/ OnDeleteDeclined
  \/ OnSave \/ OnCancel
  \/ ChangeName \/ ChangeRegNo \/ ChangeCountry \/ ChangeRegDate
  \/ ChangeTaxNo \/ ChangeDocs \/ ChangeStatus
  \/ addDirector \/ updateDirector \/ removeDirector
  \/ addBank \/ updateBank \/ removeBank
  \/ addOwnerPerson \/ addOwnerEntity \/ updateOwnerPerson \/ removeOwner
  \/ onUploadDirector \/ onUploadOwnership

Spec == Init /\ [][Next]_vars

(* ---------- the tree by position ---------- *)
RECURSIVE PathsOf(_)
\* positions of the entities of a forest: <<1>> is the root, <<1, 2>> its second child
PathsOf(nodes) ==
  UNION { {<<i>>} \cup { <<i>> \o p : p \in PathsOf(nodes[i].children) } : i \in 1..Len(nodes) }

RECURSIVE At(_, _)
\* the entity at position p
At(nodes, p) ==
  IF Len(p) = 1 THEN nodes[p[1]] ELSE At(nodes[p[1]].children, Tail(p))

IdsOf(t) == { At(t, p).id : p \in PathsOf(t) }

\* no two entities of t have the same id
DistinctIds(t) == Cardinality(IdsOf(t)) = Cardinality(PathsOf(t))

RECURSIVE AppendAt(_, _, _)
\* t with c appended to the children of the entity at position p, nothing else touched
AppendAt(nodes, p, c) ==
  [nodes EXCEPT ![p[1]] =
     IF Len(p) = 1 THEN [@ EXCEPT !.children = Append(@, c)]
     ELSE [@ EXCEPT !.children = AppendAt(@, Tail(p), c)]]

RECURSIVE RemoveAt(_, _)
\* t without the entity at position p and its subtree, nothing else touched
RemoveAt(nodes, p) ==
  IF Len(p) = 1
  THEN [k \in 1..(Len(nodes) - 1) |-> IF k < p[1] THEN nodes[k] ELSE nodes[k + 1]]
  ELSE [nodes EXCEPT ![p[1]] = [@ EXCEPT !.children = RemoveAt(@, Tail(p))]]

RECURSIVE ReplaceAt(_, _, _)
\* t with the entity at position p replaced by d, nothing else touched
ReplaceAt(nodes, p, d) ==
  [nodes EXCEPT ![p[1]] =
     IF Len(p) = 1 THEN d ELSE [@ EXCEPT !.children = ReplaceAt(@, Tail(p), d)]]

\* position of the entity shown in card slot s
SlotPath(s) == IF s = 0 THEN <<1>> ELSE <<1, s>>

(* ---------- C1 ---------- *)
\* C1: for every entity E of the tree, at any depth, and every id uid() can
\* return, addChild(E.id) appends exactly one default node to E's children,
\* the new node's id differs from every id already in the tree, and every
\* other entity keeps its id, fields, children and sibling order.
C1_AddChildAppendsFresh ==
  \A p \in PathsOf(tree) : \A u \in Ids :
    /\ u \notin IdsOf(tree)
    /\ addChildRec(tree, At(tree, p).id, newChild(u)) = AppendAt(tree, p, newChild(u))

\* what addChild does guarantee: with ids that do not collide, the append is exact
C1_AddChildWhenDistinct ==
  \A p \in PathsOf(tree) : \A u \in Ids \ IdsOf(tree) :
    DistinctIds(tree) =>
      addChildRec(tree, At(tree, p).id, newChild(u)) = AppendAt(tree, p, newChild(u))

(* ---------- C2 ---------- *)
\* C2: for every non-root entity E of the tree, deleteNode(E.id) removes
\* exactly the subtree of E: the parent's children are the old ones without
\* E, in the same order, and every entity outside the subtree is unchanged.
C2_DeleteRemovesExactlySubtree ==
  \A p \in PathsOf(tree) :
    Len(p) >= 2 => deleteNodeRec(tree, At(tree, p).id) = RemoveAt(tree, p)

\* what deleteNode does guarantee: exact when no two entities share an id
C2_DeleteWhenDistinct ==
  \A p \in PathsOf(tree) :
    (Len(p) >= 2 /\ DistinctIds(tree)) =>
      deleteNodeRec(tree, At(tree, p).id) = RemoveAt(tree, p)

(* ---------- C3 ---------- *)
\* the node Save is meant to leave in E's place: the draft's field values
\* with E's id and E's children as they are in the tree before the save
SavedNode(s) ==
  [drafts[s] EXCEPT !.id = SlotNode(tree, s).id, !.children = SlotNode(tree, s).children]

\* C3: pressing Save in the panel of entity E puts the draft's field values
\* on E, keeps E's id and E's children as they were just before the save,
\* leaves every other entity unchanged, and sets editingId to none.
C3_SaveReplacesOnlyEditedNode ==
  [][ last'.act = "Save" =>
        /\ tree' = ReplaceAt(tree, SlotPath(last'.slot), SavedNode(last'.slot))
        /\ editingId' = NoId ]_vars

\* what Save does guarantee: the same, when no two entities share an id
C3_SaveWhenDistinct ==
  [][ (last'.act = "Save" /\ DistinctIds(tree)) =>
        /\ tree' = ReplaceAt(tree, SlotPath(last'.slot), SavedNode(last'.slot))
        /\ editingId' = NoId ]_vars

(* ---------- C4 ---------- *)
DraftActs ==
  {"ChangeName", "ChangeRegNo", "ChangeCountry", "ChangeRegDate", "ChangeTaxNo",
   "ChangeDocs", "ChangeStatus", "addDirector", "updateDirector", "removeDirector",
   "addBank", "updateBank", "removeBank", "addOwnerPerson", "addOwnerEntity",
   "updateOwnerPerson", "removeOwner", "onUploadDirector", "onUploadOwnership"}

\* C4: opening the Edit Panel (Open, Edit), every draft edit and Cancel leave
\* the in-memory tree and the persisted value exactly as they were, and
\* Cancel sets editingId to none.
C4_CancelLeavesTree ==
  [][ (last'.act \in DraftActs \cup {"Open", "Edit", "Cancel"}) =>
        /\ tree' = tree
        /\ storage' = storage
        /\ (last'.act = "Cancel" => editingId' = NoId) ]_vars

\* a panel whose draft had been edited was cancelled
C4_Witness == last.act = "Cancel" /\ last.dirty /\ editingId = NoId

(* ---------- C5 ---------- *)
\* C5: the initial mount and every Save, Add and confirmed Delete leave the
\* effect pending; only the effect writes the storage and it writes the
\* serialization of the committed tree; whenever no effect is pending the
\* stored value is the serialization of the current tree.
C5_PersistenceFollowsTree ==
  /\ [](last.act = "Init" => pending)
  /\ [](~pending => storage = save(tree))
  /\ [][ /\ (storage' # storage => last'.act = "Effect")
         /\ (last'.act = "Effect" => storage' = save(tree))
         /\ ((last'.act \in {"Save", "Add", "Delete"} /\ mounted') => pending') ]_vars

\* the effect of a tree-changing handler has run
C5_Witness == last.act = "Effect" /\ ops >= 1 /\ storage = save(tree)

C6_RoundTripWithoutNaN ==
  (\A p \in PathsOf(tree) : At(tree, p).docs # NaN) => load(save(tree)) = Loaded(tree)

(* ---------- C7 ---------- *)
\* the seed structure: one root, compliant, with exactly two children,
\* warning then critical, every field as in the source
SeedShaped(t) ==
  /\ Len(t) = 1
  /\ t[1].status = "compliant"
  /\ Len(t[1].children) = 2
  /\ t[1].children[1].status = "warning"
  /\ t[1].children[2].status = "critical"
  /\ t = seed(t[1].id, t[1].children[1].id, t[1].children[2].id)

\* C7: load() never raises; with no key or with content that is not valid
\* serialized data it returns the absent result and the initial tree is the
\* seed structure; with valid saved data the initial tree is the saved tree.
C7_SeedFallback ==
  last.act = "Init" =>
    /\ load(storage) # Raised
    /\ (storage.kind \in {"nokey", "empty", "garbage"} =>
          load(storage) = Absent /\ SeedShaped(tree))
    /\ (storage.kind = "json" => tree = storage.val)

\* the App has started on corrupt storage
C7_Witness == last.act = "Init" /\ storage = Garbage /\ SeedShaped(tree)

(* ---------- C8 ---------- *)
\* number of entities of t, at any depth, whose status is st
CountStatus(t, st) == Cardinality({p \in PathsOf(t) : At(t, p).status = st})

\* C8: the three counts shown by the Portfolio Summary are those of the
\* current tree: each equals the number of entities, at any depth, with
\* that status, and together they equal the number of entities in the tree.
C8_SummaryTotals ==
  /\ summary.compliant = CountStatus(tree, "compliant")
  /\ summary.warning = CountStatus(tree, "warning")
  /\ summary.critical = CountStatus(tree, "critical")
  /\ summary.compliant + summary.warning + summary.critical = Cardinality(PathsOf(tree))

\* a tree with a grandchild whose summary has been recomputed
C8_Witness ==
  /\ \E p \in PathsOf(tree) : Len(p) = 3
  /\ Cardinality(PathsOf(tree)) = 4
  /\ summary.warning = 2

(* ---------- C9 ---------- *)
\* positions of the entities whose Edit Panel is displayed
PanelPaths == { SlotPath(s) : s \in DOMAIN drafts }

\* C9: after Add on the root card or on a direct-child card, editingId is
\* the new child's id, modify is true and the Edit Panel is displayed for
\* the new entity, the last child of the card's entity.  Stated of the
\* steps that leave the ids pairwise distinct, so that what it shows does
\* not come from a repeated id.
C9_AddOpensNewEntity ==
  [][ (last'.act = "Add" /\ DistinctIds(tree')) =>
        LET parent == SlotPath(last'.slot)
            new == parent \o <<Len(At(tree', parent).children)>>
        IN /\ editingId' = At(tree', new).id
           /\ modify'
           /\ new \in PanelPaths' ]_vars

\* what Add does guarantee: editingId is the id given to the new node and
\* modify is true; the panel is displayed when the card was the root card
C9_AddOnRootOpensPanel ==
  [][ (last'.act = "Add" /\ DistinctIds(tree')) =>
        LET parent == SlotPath(last'.slot)
            new == parent \o <<Len(At(tree', parent).children)>>
        IN /\ editingId' = At(tree', new).id
           /\ modify'
           /\ (last'.slot = 0 => new \in PanelPaths') ]_vars

(* ---------- C10 ---------- *)
\* C10: only a confirmed Delete on a non-root card removes entities; a
\* declined Delete leaves tree and storage unchanged; the App keeps showing
\* a tree whose root tree[0] has the id it had initially.
C10_OnlyConfirmedDeleteRemoves ==
  /\ [](mounted /\ Len(tree) >= 1)
  /\ [][ /\ (Cardinality(PathsOf(tree')) < Cardinality(PathsOf(tree)) =>
               last'.act = "Delete" /\ last'.slot # 0)
         /\ (last'.act = "Declined" => tree' = tree /\ storage' = storage)
         /\ tree'[1].id = tree[1].id ]_vars

\* what holds of removal: the same, in steps taken from trees with distinct ids
C10_WhenDistinct ==
  [][ DistinctIds(tree) =>
        /\ mounted'
        /\ (Cardinality(PathsOf(tree')) < Cardinality(PathsOf(tree)) =>
              last'.act = "Delete" /\ last'.slot # 0)
        /\ (last'.act = "Declined" => tree' = tree /\ storage' = storage)
        /\ tree'[1].id = tree[1].id ]_vars

(* ---------- C11 ---------- *)
\* entities of the current tree that have the id an owner row refers to
Referenced(o) == {p \in PathsOf(tree) : At(tree, p).id = o.entityId}

\* C11: every owner row of kind entity shown in a displayed Edit Panel shows
\* the current name of an entity of the tree with the row's entityId when
\* there is one, and shows "Unknown entity" exactly when there is none.
C11_OwnerRowShowsEntityName ==
  \A s \in DOMAIN drafts : \A i \in 1..Len(drafts[s].owners) :
    LET o == drafts[s].owners[i]
        shown == ownerRowText(flatten(tree), o)
    IN o.kind = "entity" =>
         /\ (Referenced(o) # {} => shown \in {At(tree, p).name : p \in Referenced(o)})
         /\ (shown = "Unknown entity" <=> Referenced(o) = {})

\* what the row does guarantee: the same, when the referenced entities have
\* a name that is not the empty text
C11_WhenNamed ==
  \A s \in DOMAIN drafts : \A i \in 1..Len(drafts[s].owners) :
    LET o == drafts[s].owners[i]
        shown == ownerRowText(flatten(tree), o)
    IN (o.kind = "entity" /\ \A p \in Referenced(o) : At(tree, p).name # "") =>
         /\ (Referenced(o) # {} => shown \in {At(tree, p).name : p \in Referenced(o)})
         /\ (shown = "Unknown entity" <=> Referenced(o) = {})

\* a panel shows one row of a live entity and one row of a deleted entity
C11_BothRowsShown ==
  \E s \in DOMAIN drafts : \E i, j \in 1..Len(drafts[s].owners) :
    /\ drafts[s].owners[i].kind = "entity" /\ Referenced(drafts[s].owners[i]) # {}
    /\ drafts[s].owners[j].kind = "entity" /\ Referenced(drafts[s].owners[j]) = {}

(* ---------- C12 ---------- *)
\* C12: in every reachable state editingId is none or the id of an entity
\* of the current tree.
C12_EditingIdInTree == editingId = NoId \/ editingId \in IdsOf(tree)

\* what the handlers do guarantee: Open, Edit, Add, Save and Cancel leave
\* editingId none or the id of an entity of the tree they leave
C12_SetEditingIdInTree ==
  [][ (last'.act \in {"Open", "Edit", "Add", "Save", "Cancel"} /\ mounted') =>
        (editingId' = NoId \/ editingId' \in IdsOf(tree')) ]_vars

(* ---------- C13 ---------- *)
\* no entity of t is deeper than a grandchild of the root, and every
\* grandchild is as addChild made it: the default fields and no children
TwoLevels(t) ==
  \A p \in PathsOf(t) :
    /\ Len(p) <= 3
    /\ (Len(p) = 3 => At(t, p) = newChild(At(t, p).id))

\* C13: in every state reachable from the initial tree through the UI's
\* actions no entity is deeper than a grandchild of the root, and every
\* grandchild has the add-child default field values and no children.
C13_TwoLevelsDefaultGrandchildren == TwoLevels(tree)

\* what the handlers do guarantee: the same is kept by every step between
\* trees whose ids are pairwise distinct
C13_WhenDistinct ==
  [][ (DistinctIds(tree) /\ DistinctIds(tree') /\ TwoLevels(tree)) => TwoLevels(tree') ]_vars

\* a grandchild exists in a tree with pairwise distinct ids
C13_GrandchildExists ==
  /\ DistinctIds(tree)
  /\ \E p \in PathsOf(tree) : Len(p) = 3
====
